---- MODULE Spec2Model ----
(***************************************************************************)
(* Model of gptease: the Chat completion loop (Talk / Exchange), the tool *)
(* dispatch inside it, the Handler closure built by MakeTool and the      *)
(* lazily initialised default client.                                     *)
(*                                                                         *)
(* Go strings are modelled as sequences of text fragments, so that        *)
(* fmt.Errorf / Sprintf are concatenations (\o) and "" is <<>>.           *)
(***************************************************************************)
EXTENDS Integers, Sequences, FiniteSets, TLC

VARIABLES
    Dialogue,       \* Chat.Dialogue
    defaultClient,  \* package variable defaultClient: "nil" or a client
    onceDone,       \* defaultClientOnce has run its function
    apikey,         \* os.Getenv("OPENAI_API_KEY"): <<>> when unset
    remote,         \* how the remote API behaves: "any" or "looping"
    pc,             \* where the caller is: idle, sending, dispatch, returned, panicked
    mode,           \* the top-level call in progress: none, Talk, Exchange
    dlen,           \* Exchange's local dlen
    calls,          \* Talk's local calls (resp.Choices[0].Message.ToolCalls)
    next,           \* index in calls of the call the range loop handles next
    ret,            \* what the top-level call returned: [response, err]
    nops,           \* number of set-up operations done so far
    pre,            \* history: the Dialogue when the top-level call began
    sent,           \* history: Messages of the last remote request
    nRemote,        \* history: number of CreateChatCompletion calls issued
    rounds,         \* history: the ToolCalls of every tool-calls response handled
    outcome,        \* history: how the last remote request ended: "", "error", "no_choices" or the finish reason
    dispatched,     \* history: one record per tool call handled by the range loop
    op,             \* history: the last operation the caller invoked: [name, args]
    argType,        \* MakeTool: the argument type t.In(0) of the function f
    reg,            \* MakeTool: "none" before the call, then "tool" or "panicked"
    tool,           \* MakeTool: the Tool returned: [Name, Description, Parameters]
    derived,        \* history: number of top-level readSpec calls
    hlast,          \* history: what the last call of tool.Handler returned
    cpc,            \* DefaultClient: where each goroutine is in its call
    cerr,           \* DefaultClient: each goroutine's named result err
    chist,          \* history: per goroutine, nset when its call began and whether it took the slow path
    cgot,           \* history: what each goroutine's last DefaultClient call returned
    onceOwner,      \* defaultClientOnce: the goroutine holding its mutex, 0 if none
    constructed,    \* history: number of openai.NewClient calls
    nset            \* history: number of SetDefaultClient calls

vars == <<Dialogue, defaultClient, onceDone, apikey, remote, pc, mode, dlen, calls, next,
          ret, nops, pre, sent, nRemote, rounds, outcome, dispatched, op,
          argType, reg, tool, derived, hlast,
          cpc, cerr, chist, cgot, onceOwner, constructed, nset>>

\* the variables of MakeTool and of a registered Tool
schemaVars == <<argType, reg, tool, derived, hlast>>

\* the variables of concurrent DefaultClient calls
procVars == <<cpc, cerr, chist, cgot, onceOwner, constructed, nset>>

\* what no operation of a Chat touches
fixed == <<apikey, remote, schemaVars, procVars>>

(***************************************************************************)
(* Bounds of the model.                                                    *)
(***************************************************************************)
\* Tool calls the remote may request in one run of Talk, over all its rounds.
MaxToolCalls == 2
\* Operations the caller performs before the top-level Talk or Exchange.
MaxSetupOps == 1
\* Rounds a remote that always asks for another tool call is followed for.
MaxRounds == 3

(***************************************************************************)
(* Errors.  An error value is [is, text]: `is' names the sentinel that     *)
(* errors.Is finds in its chain ("none" if there is none) and `text' is    *)
(* what Error() returns.  Nil is the nil error.                            *)
(***************************************************************************)
Nil == [is |-> "nil", text |-> <<>>]

ErrContentFilter == [is |-> "ErrContentFilter", text |-> <<"response omitted due to content filter">>]

ErrNotFinished == [is |-> "ErrNotFinished", text |-> <<"response generation not finished">>]

ErrUnexpectedResponse == [is |-> "ErrUnexpectedResponse", text |-> <<"unexpected response from OpenAI API">>]

\* errors.New(text) / fmt.Errorf without %w
NewError(text) == [is |-> "none", text |-> text]

\* fmt.Errorf("%w" + suffix, e)
Wrap(e, suffix) == [is |-> e.is, text |-> e.text \o suffix]

(***************************************************************************)
(* Messages (openai.ChatCompletionMessage) and tool calls.                 *)
(***************************************************************************)
Message(role, content) ==
    [Role |-> role, Content |-> content, ToolCalls |-> <<>>, ToolCallID |-> ""]

ToolMessageUntagged(content, id) ==
    [Role |-> "tool", Content |-> content, ToolCalls |-> <<>>, ToolCallID |-> ""]

ToolMessage(content, id) ==
    [Role |-> "tool", Content |-> content, ToolCalls |-> <<>>, ToolCallID |-> id]

\* the message of a tool-calls response
CallsMessage(cs) ==
    [Role |-> "assistant", Content |-> <<>>, ToolCalls |-> cs, ToolCallID |-> ""]

Texts == {<<"hi">>}

Replies == {<<"ok">>}

(***************************************************************************)
(* JSON.  The argument and result types of the registered functions are    *)
(* int; a result may also be the float NaN, which JSON cannot represent.   *)
(***************************************************************************)
JsonInts == 0 .. 3

\* json.Unmarshal([]byte(input), v) for an int v
Unmarshal(input) ==
    IF \E n \in JsonInts : input = <<ToString(n)>>
    THEN [v |-> CHOOSE n \in JsonInts : input = <<ToString(n)>>, err |-> Nil]
    ELSE [v |-> 0, err |-> NewError(<<"invalid character looking for beginning of value">>)]

\* Go values of the functions' result types
IntVal(n) == [kind |-> "int", n |-> n]

NaN == [kind |-> "NaN", n |-> 0]

\* json.MarshalIndent(v, "", "  ")
MarshalIndent(v) ==
    IF v.kind = "int"
    THEN [b |-> <<ToString(v.n)>>, err |-> Nil]
    ELSE [b |-> <<>>, err |-> NewError(<<"json: unsupported value: NaN">>)]

(***************************************************************************)
(* The registered tools.  F is the wrapped Go function.                    *)
(***************************************************************************)
\* reflect.ValueOf(f).Call: the function's two results
CallF(f, v) ==
    CASE f = "succ" -> [val |-> IntVal(v + 1), err |-> Nil]
      [] f = "fail" -> [val |-> IntVal(7), err |-> NewError(<<"boom">>)]
      [] f = "nan"  -> [val |-> NaN, err |-> Nil]
      [] f = "zero" -> [val |-> IntVal(0), err |-> Nil]

\* Chat.Tools, in registration order; the last one repeats the name of the first
Tools ==
    << [Name |-> "calc", F |-> "succ"],
       [Name |-> "fail", F |-> "fail"],
       [Name |-> "nan",  F |-> "nan"],
       [Name |-> "calc", F |-> "zero"] >>

\* The Handler closure of MakeTool(f, ...): decode, invoke, encode.
\* fcalls counts the invocations of f; panic tells whether the closure panicked.
HandlerDecodeSkipped(f, input) ==
    LET r == CallF(f, Unmarshal(input).v)
    IN IF r.err # Nil
       THEN [out |-> <<>>, err |-> r.err, fcalls |-> 1, panic |-> FALSE]
       ELSE [out |-> MarshalIndent(r.val).b, err |-> Nil, fcalls |-> 1, panic |-> FALSE]

HandlerKeepsOutput(f, input) ==
    LET d == Unmarshal(input)
        r == CallF(f, d.v)
    IN IF d.err # Nil
       THEN [out |-> <<>>, err |-> d.err, fcalls |-> 0, panic |-> FALSE]
       ELSE IF r.err # Nil
            THEN [out |-> MarshalIndent(r.val).b, err |-> r.err, fcalls |-> 1, panic |-> FALSE]
            ELSE [out |-> MarshalIndent(r.val).b, err |-> Nil, fcalls |-> 1, panic |-> FALSE]

Handler(f, input) ==
    LET d == Unmarshal(input)
    IN IF d.err # Nil
       THEN [out |-> <<>>, err |-> d.err, fcalls |-> 0, panic |-> FALSE]
       ELSE LET r == CallF(f, d.v)
            IN IF r.err # Nil
               THEN [out |-> <<>>, err |-> r.err, fcalls |-> 1, panic |-> FALSE]
               ELSE LET m == MarshalIndent(r.val)
                        \* line 147 tests the closure's named result err, which
                        \* nothing assigns, not jerr
                        err == Nil
                    IN IF err # Nil
                       THEN [out |-> <<>>, err |-> m.err, fcalls |-> 1, panic |-> TRUE]
                       ELSE [out |-> m.b, err |-> Nil, fcalls |-> 1, panic |-> FALSE]

(***************************************************************************)
(* The default client.                                                     *)
(***************************************************************************)
\* DefaultClient(): what it returns and what it leaves in the package variables
DefaultClient ==
    IF ~onceDone
    THEN IF apikey = <<>>
         THEN [client |-> defaultClient, once |-> TRUE, stored |-> defaultClient,
               err |-> NewError(<<"OPENAI_API_KEY environment variable not set">>)]
         ELSE [client |-> "env", once |-> TRUE, stored |-> "env", err |-> Nil]
    ELSE [client |-> defaultClient, once |-> TRUE, stored |-> defaultClient, err |-> Nil]

\* Chat.client(): the field c.c is never assigned, so it is DefaultClient()
client == DefaultClient

(***************************************************************************)
(* What the remote API may answer.                                         *)
(***************************************************************************)
Args == {<<"1">>, <<"x">>}

\* Type, Function.Name and Function.Arguments of the calls the remote requests
CallShapes ==
    { [Type |-> "function", Name |-> "calc", Arguments |-> a] : a \in Args }
    \cup { [Type |-> "function", Name |-> n, Arguments |-> <<"1">>] : n \in {"fail", "nan", "missing"} }
    \cup { [Type |-> "retrieval", Name |-> "calc", Arguments |-> <<"1">>] }

\* openai.ToolCall; the remote numbers the calls of a run
ToolCall(shape, n) ==
    [ID |-> ToString(n), Type |-> shape.Type,
     Function |-> [Name |-> shape.Name, Arguments |-> shape.Arguments]]

\* number of tool calls requested so far in this run
RECURSIVE SumLen(_)
SumLen(rs) == IF rs = <<>> THEN 0 ELSE Len(Head(rs)) + SumLen(Tail(rs))

\* the call lists of k calls the remote may send next
CallLists(k) ==
    { [i \in 1 .. k |-> ToolCall(shapes[i], SumLen(rounds) + i)] : shapes \in [1 .. k -> CallShapes] }

FinalFinish == {"stop", "length", "eos"}

NoChoices == [Choices |-> <<>>]

Response(finish, msg) == [Choices |-> <<[FinishReason |-> finish, Message |-> msg]>>]

\* a remote that answers every request by asking for one more tool call
LoopResponses ==
    IF Len(rounds) < MaxRounds
    THEN { Response("tool_calls", CallsMessage(cs)) : cs \in CallLists(1) }
    ELSE {}

\* the responses the remote may give to the next request of this run
Responses ==
    IF remote = "looping"
    THEN LoopResponses
    ELSE {NoChoices}
         \cup { Response(f, Message("assistant", <<"answer">>)) :
                  f \in FinalFinish \cup {"content_filter", "null", "function_call"} }
         \cup { Response("tool_calls", CallsMessage(<<>>)) }
         \cup { Response("tool_calls", CallsMessage(cs)) :
                  cs \in UNION { CallLists(k) : k \in 1 .. (MaxToolCalls - SumLen(rounds)) } }

(***************************************************************************)
(* Dialogue operations.                                                    *)
(***************************************************************************)
AssistantSaid(d, msg) == Append(d, Message("assistant", msg))

UserSaid(d, msg) == Append(d, Message("user", msg))

ExampleExchange(d, input, response) == AssistantSaid(UserSaid(d, input), response)

InstructionPrepends(d, txt) == <<Message("system", txt)>> \o d

Instruction(d, txt) == Append(d, Message("system", txt))

TruncateKeepsUser(d, n) == SubSeq(d, 1, n + 1)

\* c.Dialogue[:n]
Truncate(d, n) == SubSeq(d, 1, n)

(***************************************************************************)
(* Talk: the switch on the response, and the handling of one tool call.    *)
(***************************************************************************)
Fail(e) == [kind |-> "fail", err |-> e]

InterpretNullAsFilter(resp) ==
    IF Len(resp.Choices) = 0
    THEN Fail(Wrap(ErrUnexpectedResponse, <<": OpenAI API returned no choices">>))
    ELSE LET choice == resp.Choices[1]
         IN CASE choice.FinishReason = "function_call" ->
                   Fail(Wrap(ErrUnexpectedResponse, <<": deprecated function call returned by API">>))
              [] choice.FinishReason = "tool_calls" ->
                   IF Len(choice.Message.ToolCalls) = 0
                   THEN Fail(Wrap(ErrUnexpectedResponse, <<": no calls provided">>))
                   ELSE [kind |-> "dispatch", err |-> Nil]
              [] choice.FinishReason \in {"content_filter", "null"} -> Fail(ErrContentFilter)
              [] OTHER -> [kind |-> "respond", err |-> Nil]

InterpretEmptyCallsAsRound(resp) ==
    IF Len(resp.Choices) = 0
    THEN Fail(Wrap(ErrUnexpectedResponse, <<": OpenAI API returned no choices">>))
    ELSE LET choice == resp.Choices[1]
         IN CASE choice.FinishReason = "function_call" ->
                   Fail(Wrap(ErrUnexpectedResponse, <<": deprecated function call returned by API">>))
              [] choice.FinishReason = "tool_calls" ->
                   IF Len(choice.Message.ToolCalls) = 0
                   THEN [kind |-> "respond", err |-> Nil]
                   ELSE [kind |-> "dispatch", err |-> Nil]
              [] choice.FinishReason = "content_filter" -> Fail(ErrContentFilter)
              [] choice.FinishReason = "null" -> Fail(ErrNotFinished)
              [] OTHER -> [kind |-> "respond", err |-> Nil]

InterpretCapsRounds(resp) ==
    IF Len(resp.Choices) = 0
    THEN Fail(Wrap(ErrUnexpectedResponse, <<": OpenAI API returned no choices">>))
    ELSE LET choice == resp.Choices[1]
         IN CASE choice.FinishReason = "function_call" ->
                   Fail(Wrap(ErrUnexpectedResponse, <<": deprecated function call returned by API">>))
              [] choice.FinishReason = "tool_calls" ->
                   IF Len(choice.Message.ToolCalls) = 0
                   THEN Fail(Wrap(ErrUnexpectedResponse, <<": no calls provided">>))
                   ELSE IF Len(rounds) >= 2
                        THEN Fail(NewError(<<"too many tool-call rounds">>))
                        ELSE [kind |-> "dispatch", err |-> Nil]
              [] choice.FinishReason = "content_filter" -> Fail(ErrContentFilter)
              [] choice.FinishReason = "null" -> Fail(ErrNotFinished)
              [] OTHER -> [kind |-> "respond", err |-> Nil]

\* lines 358-415: what Talk does with a response
Interpret(resp) ==
    IF Len(resp.Choices) = 0
    THEN Fail(Wrap(ErrUnexpectedResponse, <<": OpenAI API returned no choices">>))
    ELSE LET choice == resp.Choices[1]
         IN CASE choice.FinishReason = "function_call" ->
                   Fail(Wrap(ErrUnexpectedResponse, <<": deprecated function call returned by API">>))
              [] choice.FinishReason = "tool_calls" ->
                   IF Len(choice.Message.ToolCalls) = 0
                   THEN Fail(Wrap(ErrUnexpectedResponse, <<": no calls provided">>))
                   ELSE [kind |-> "dispatch", err |-> Nil]
              [] choice.FinishReason = "content_filter" -> Fail(ErrContentFilter)
              [] choice.FinishReason = "null" -> Fail(ErrNotFinished)
              [] OTHER -> [kind |-> "respond", err |-> Nil]

FindToolTakesLast(name) ==
    IF \E i \in 1 .. Len(Tools) : Tools[i].Name = name
    THEN CHOOSE i \in 1 .. Len(Tools) :
             Tools[i].Name = name /\ \A j \in (i + 1) .. Len(Tools) : Tools[j].Name # name
    ELSE 0

FindToolDefaultsToFirst(name) ==
    IF \E i \in 1 .. Len(Tools) : Tools[i].Name = name
    THEN CHOOSE i \in 1 .. Len(Tools) :
             Tools[i].Name = name /\ \A j \in 1 .. (i - 1) : Tools[j].Name # name
    ELSE 1

\* lines 377-383: index of the first tool with that name, 0 if there is none
FindTool(name) ==
    IF \E i \in 1 .. Len(Tools) : Tools[i].Name = name
    THEN CHOOSE i \in 1 .. Len(Tools) :
             Tools[i].Name = name /\ \A j \in 1 .. (i - 1) : Tools[j].Name # name
    ELSE 0

NoHandler == [out |-> <<>>, err |-> Nil, fcalls |-> 0, panic |-> FALSE]

DispatchIgnoresType(call) ==
    LET t == FindTool(call.Function.Name)
    IN IF t = 0
       THEN [tool |-> 0, h |-> NoHandler,
             content |-> NewError(<<"error: no tool found with name ", call.Function.Name>>).text]
       ELSE LET h == Handler(Tools[t].F, call.Function.Arguments)
            IN [tool |-> t, h |-> h,
                content |-> IF h.err # Nil THEN h.err.text ELSE h.out]

\* lines 371-394: the handler invoked for a call (tool, 0 if none), what it
\* returned (h) and the content of the tool message
Dispatch(call) ==
    IF call.Type # "function"
    THEN [tool |-> 0, h |-> NoHandler,
          content |-> NewError(<<"error: unknown tool call type ", call.Type>>).text]
    ELSE LET t == FindTool(call.Function.Name)
         IN IF t = 0
            THEN [tool |-> 0, h |-> NoHandler,
                  content |-> NewError(<<"error: no tool found with name ", call.Function.Name>>).text]
            ELSE LET h == Handler(Tools[t].F, call.Function.Arguments)
                 IN [tool |-> t, h |-> h,
                     content |-> IF h.err # Nil THEN h.err.text ELSE h.out]

(***************************************************************************)
(* Initial state: a fresh process and a zero Chat with the tools above.    *)
(***************************************************************************)
\* no MakeTool call in progress
SchemaIdle ==
    /\ argType = <<>>
    /\ reg = "none"
    /\ tool = <<>>
    /\ derived = 0
    /\ hlast = <<>>

\* no goroutine calls DefaultClient
ProcIdle ==
    /\ cpc = <<>>
    /\ cerr = <<>>
    /\ chist = <<>>
    /\ cgot = <<>>
    /\ onceOwner = 0
    /\ constructed = 0
    /\ nset = 0

\* a fresh process and a Chat whose Dialogue is d, before any call on it
ChatWith(d) ==
    /\ op = [name |-> "", args |-> <<>>]
    /\ Dialogue = d
    /\ defaultClient = "nil"
    /\ onceDone = FALSE
    /\ apikey \in {<<>>, <<"sk-key">>}
    /\ pc = "idle"
    /\ mode = "none"
    /\ dlen = 0
    /\ calls = <<>>
    /\ next = 1
    /\ ret = [response |-> <<>>, err |-> Nil]
    /\ nops = 0
    /\ pre = <<>>
    /\ sent = <<>>
    /\ nRemote = 0
    /\ rounds = <<>>
    /\ outcome = ""
    /\ dispatched = <<>>

\* a fresh process and a zero Chat
ChatInit == ChatWith(<<>>)

Init ==
    /\ ChatInit
    /\ remote = "any"
    /\ SchemaIdle
    /\ ProcIdle

talkVars == <<calls, next, sent, nRemote, rounds, outcome, dispatched>>

clientVars == <<defaultClient, onceDone, fixed>>

(***************************************************************************)
(* Operations on the Chat before the top-level call.                       *)
(***************************************************************************)
Setup(name, args, d) ==
    /\ pc = "idle"
    /\ nops < MaxSetupOps
    /\ nops' = nops + 1
    /\ op' = [name |-> name, args |-> args]
    /\ Dialogue' = d
    /\ UNCHANGED <<clientVars, pc, mode, dlen, ret, pre, talkVars>>

DoInstruction == \E txt \in Texts : Setup("Instruction", <<txt>>, Instruction(Dialogue, txt))

DoUserSaid == \E msg \in Texts : Setup("UserSaid", <<msg>>, UserSaid(Dialogue, msg))

DoAssistantSaid == \E msg \in Texts : Setup("AssistantSaid", <<msg>>, AssistantSaid(Dialogue, msg))

DoExampleExchange ==
    \E input \in Texts, response \in Replies :
        Setup("ExampleExchange", <<input, response>>, ExampleExchange(Dialogue, input, response))

\* Embed(text): only its use of the default client matters here; with a nil
\* client CreateEmbeddings dereferences nil
Embed ==
    /\ pc = "idle"
    /\ nops < MaxSetupOps
    /\ nops' = nops + 1
    /\ op' = [name |-> "Embed", args |-> <<>>]
    /\ onceDone' = DefaultClient.once
    /\ defaultClient' = DefaultClient.stored
    /\ pc' = IF DefaultClient.err = Nil /\ DefaultClient.client = "nil" THEN "panicked" ELSE pc
    /\ UNCHANGED <<Dialogue, fixed, mode, dlen, ret, pre, talkVars>>

(***************************************************************************)
(* Talk and Exchange.                                                      *)
(***************************************************************************)
\* Talk() called directly: lines 336-339 build the tool list
Talk ==
    /\ pc = "idle"
    /\ mode' = "Talk"
    /\ op' = [name |-> "Talk", args |-> <<>>]
    /\ pre' = Dialogue
    /\ pc' = "sending"
    /\ UNCHANGED <<Dialogue, clientVars, dlen, ret, nops, talkVars>>

\* Exchange(content) up to its call of Talk
Exchange ==
    /\ pc = "idle"
    /\ \E content \in Texts \cup {<<>>} :
        /\ mode' = "Exchange"
        /\ op' = [name |-> "Exchange", args |-> <<content>>]
        /\ pre' = Dialogue
        /\ IF content = <<>>
           THEN /\ ret' = [response |-> <<>>, err |-> NewError(<<"empty content">>)]
                /\ pc' = "returned"
                /\ UNCHANGED <<Dialogue, dlen>>
           ELSE /\ dlen' = Len(Dialogue)
                /\ Dialogue' = UserSaid(Dialogue, content)
                /\ pc' = "sending"
                /\ UNCHANGED ret
    /\ UNCHANGED <<clientVars, nops, talkVars>>

ReturnResetsInAnyMode(response, err, d) ==
    /\ ret' = [response |-> IF err # Nil THEN <<>> ELSE response, err |-> err]
    /\ pc' = "returned"
    /\ Dialogue' = IF err # Nil THEN pre ELSE d

ReturnAlwaysResets(response, err, d) ==
    /\ ret' = [response |-> IF err # Nil THEN <<>> ELSE response, err |-> err]
    /\ pc' = "returned"
    /\ Dialogue' = IF mode = "Exchange" THEN Truncate(d, dlen) ELSE d

\* Talk returns (response, err) with the Dialogue d; under Exchange an error
\* resets the Dialogue to its first dlen messages (lines 428-434)
Return(response, err, d) ==
    /\ ret' = [response |-> IF err # Nil THEN <<>> ELSE response, err |-> err]
    /\ pc' = "returned"
    /\ Dialogue' = IF mode = "Exchange" /\ err # Nil THEN Truncate(d, dlen) ELSE d

\* lines 341-344: no client
TalkClientError ==
    /\ pc = "sending"
    /\ client.err # Nil
    /\ onceDone' = client.once
    /\ defaultClient' = client.stored
    /\ Return(<<>>, client.err, Dialogue)
    /\ UNCHANGED <<fixed, mode, dlen, nops, pre, talkVars, op>>

\* line 345 with the nil client that DefaultClient returns without an error
TalkNilClient ==
    /\ pc = "sending"
    /\ client.err = Nil
    /\ client.client = "nil"
    /\ pc' = "panicked"
    /\ UNCHANGED <<Dialogue, clientVars, mode, dlen, ret, nops, pre, talkVars, op>>

\* the remote request of lines 345-354 is issued
Request ==
    /\ pc = "sending"
    /\ client.err = Nil
    /\ client.client # "nil"
    /\ onceDone' = client.once
    /\ defaultClient' = client.stored
    /\ nRemote' = nRemote + 1
    /\ sent' = Dialogue
    /\ UNCHANGED <<fixed, mode, dlen, nops, pre, op>>

TalkRemoteErrorRetries ==
    /\ Request
    /\ outcome' = "error"
    /\ IF nRemote < MaxToolCalls + 2
       THEN UNCHANGED <<Dialogue, ret, pc>>
       ELSE Return(<<>>, NewError(<<"remote call failed">>), Dialogue)
    /\ UNCHANGED <<calls, next, rounds, dispatched>>

\* lines 355-357: the remote call fails
TalkRemoteError ==
    /\ Request
    /\ Return(<<>>, NewError(<<"remote call failed">>), Dialogue)
    /\ outcome' = "error"
    /\ UNCHANGED <<calls, next, rounds, dispatched>>

\* a response on which Talk returns an error
TalkFail ==
    /\ Request
    /\ \E resp \in Responses :
        /\ Interpret(resp).kind = "fail"
        /\ outcome' = IF resp = NoChoices THEN "no_choices" ELSE resp.Choices[1].FinishReason
        /\ Return(<<>>, Interpret(resp).err, Dialogue)
    /\ UNCHANGED <<calls, next, rounds, dispatched>>

\* lines 364-369: a tool-calls response; its message is appended
TalkToolCalls ==
    /\ Request
    /\ \E resp \in Responses :
        /\ Interpret(resp).kind = "dispatch"
        /\ outcome' = resp.Choices[1].FinishReason
        /\ calls' = resp.Choices[1].Message.ToolCalls
        /\ Dialogue' = Append(Dialogue, resp.Choices[1].Message)
        /\ rounds' = Append(rounds, resp.Choices[1].Message.ToolCalls)
    /\ next' = 1
    /\ pc' = "dispatch"
    /\ UNCHANGED <<ret, dispatched>>

\* lines 370-400: one iteration of the range loop; after the last call Talk
\* goes round its loop again (line 403)
TalkDispatch ==
    /\ pc = "dispatch"
    /\ LET call == calls[next]
           r == Dispatch(call)
       IN /\ Dialogue' = Append(Dialogue, ToolMessage(r.content, call.ID))
          /\ dispatched' = Append(dispatched,
                 [call |-> call, tool |-> r.tool, h |-> r.h, at |-> Len(Dialogue) + 1])
    /\ next' = next + 1
    /\ pc' = IF next = Len(calls) THEN "sending" ELSE "dispatch"
    /\ UNCHANGED <<clientVars, mode, dlen, calls, ret, nops, pre, sent, nRemote, rounds, outcome, op>>

\* lines 412-415: the response is appended and returned
TalkRespond ==
    /\ Request
    /\ \E resp \in Responses :
        /\ Interpret(resp).kind = "respond"
        /\ outcome' = resp.Choices[1].FinishReason
        /\ Return(resp.Choices[1].Message.Content, Nil,
                  Append(Dialogue, resp.Choices[1].Message))
    /\ UNCHANGED <<calls, next, rounds, dispatched>>

Next ==
    \/ DoInstruction
    \/ DoUserSaid
    \/ DoAssistantSaid
    \/ DoExampleExchange
    \/ Embed
    \/ Talk
    \/ Exchange
    \/ TalkClientError
    \/ TalkNilClient
    \/ TalkRemoteError
    \/ TalkFail
    \/ TalkToolCalls
    \/ TalkDispatch
    \/ TalkRespond

Spec == Init /\ [][Next]_vars

(***************************************************************************)
(* The same operations on a Chat that already holds a conversation.        *)
(***************************************************************************)
\* Dialogues a Chat holds after earlier set-up calls
StartDialogues ==
    { <<>>, ExampleExchange(Instruction(<<>>, <<"hi">>), <<"hi">>, <<"ok">>) }

InitDialogue ==
    /\ \E d \in StartDialogues : ChatWith(d)
    /\ remote = "any"
    /\ SchemaIdle
    /\ ProcIdle

SpecDialogue == InitDialogue /\ [][Next]_vars

(***************************************************************************)
(* Talk against a remote that either answers as it likes within its       *)
(* budget of tool calls ("any") or asks for one more tool call on every   *)
(* request ("looping").  The goroutine running Talk keeps running: every  *)
(* handler returns and every request is answered, so a step of Talk that  *)
(* stays possible is eventually taken.                                     *)
(***************************************************************************)
InitFair ==
    /\ ChatInit
    /\ remote \in {"any", "looping"}
    /\ SchemaIdle
    /\ ProcIdle

\* lines 355-357 for a remote that can fail
RemoteError ==
    /\ remote = "any"
    /\ TalkRemoteError

TalkSteps ==
    \/ TalkClientError
    \/ RemoteError
    \/ TalkFail
    \/ TalkToolCalls
    \/ TalkDispatch
    \/ TalkRespond

NextFair ==
    \/ Talk
    \/ Exchange
    \/ TalkClientError
    \/ RemoteError
    \/ TalkFail
    \/ TalkToolCalls
    \/ TalkDispatch
    \/ TalkRespond

FairSpec == InitFair /\ [][NextFair]_vars /\ WF_vars(TalkSteps)

(***************************************************************************)
(* Schema derivation (readSpec) and MakeTool.                              *)
(*                                                                         *)
(* A Go type is [kind, elem, fields]: elem holds the element type of a     *)
(* slice, fields the fields of a struct.  A field's tag is [json, desc,    *)
(* enum]: json is the json tag split at its commas (<<>> when absent),     *)
(* desc and enum are <<>> when absent and <<value>> when present.          *)
(***************************************************************************)
\* nesting depth of the argument types
MaxDepth == 2

Prim(k) == [kind |-> k, elem |-> <<>>, fields |-> <<>>]

SliceOf(t) == [kind |-> "slice", elem |-> <<t>>, fields |-> <<>>]

StructOf(fs) == [kind |-> "struct", elem |-> <<>>, fields |-> fs]

Field(name, json, desc, enum, t) ==
    [Name |-> name, Tag |-> [json |-> json, desc |-> desc, enum |-> enum], Type |-> t]

\* reflect kinds that are neither struct nor slice; map stands for every kind
\* outside the ones named here
PrimKinds == {"string", "int", "int64", "float32", "float64", "bool", "map"}

\* json tags of the field Foo: none, a rename, a rename with omitempty,
\* omitempty alone, and a rename to the name omitempty
FooTags == {<<>>, <<"foo">>, <<"foo", "omitempty">>, <<"", "omitempty">>, <<"omitempty">>}

BarField == Field("Bar", <<"bar", "omitempty">>, << <<"a bar">> >>, << <<"x", "y">> >>, Prim("int"))

\* the argument types of nesting depth at most d
RECURSIVE Types(_)
Types(d) ==
    IF d = 0
    THEN { Prim(k) : k \in PrimKinds }
    ELSE LET sub == Types(d - 1)
         IN { Prim(k) : k \in PrimKinds }
            \cup { SliceOf(t) : t \in sub }
            \cup { StructOf(<<>>) }
            \cup { StructOf(<<Field("Foo", j, <<>>, <<>>, t)>>) : j \in FooTags, t \in sub }
            \cup { StructOf(<<Field("Foo", j, <<>>, <<>>, t), BarField>>) : j \in FooTags, t \in sub }

\* the zero fieldSpec
ZeroSpec ==
    [Type |-> "", Properties |-> <<>>, Items |-> <<>>, Description |-> <<>>,
     Required |-> <<>>, Enum |-> <<>>]

\* (s *fieldSpec) parseTag(tag)
parseTag(s, tag) ==
    LET s1 == IF tag.desc # <<>> THEN [s EXCEPT !.Description = tag.desc[1]] ELSE s
    IN IF tag.enum # <<>> THEN [s1 EXCEPT !.Enum = tag.enum[1]] ELSE s1

\* strings.Contains(jt, sub) for a sub that holds no comma
Contains(jt, sub) == \E i \in 1 .. Len(jt) : jt[i] = sub

\* readSpec(t): [panic, s]; readFields is the loop over the fields of a struct
RECURSIVE readSpec(_)
RECURSIVE readFields(_, _)
readFields(fs, acc) ==
    IF fs = <<>>
    THEN acc
    ELSE LET f == Head(fs)
             jt == f.Tag.json
             name == IF jt # <<>> THEN jt[1] ELSE f.Name
             required == IF jt # <<>> /\ ~Contains(jt, "omitempty")
                         THEN Append(acc.s.Required, name)
                         ELSE acc.s.Required
             r == readSpec(f.Type)
         IN IF r.panic
            THEN [panic |-> TRUE, s |-> acc.s]
            ELSE readFields(Tail(fs),
                     [panic |-> FALSE,
                      s |-> [acc.s EXCEPT !.Required = required,
                                          !.Properties = (name :> parseTag(r.s, f.Tag)) @@ @]])

readSpecLazyItems(t) ==
    CASE t.kind = "struct" ->
           readFields(t.fields, [panic |-> FALSE, s |-> [ZeroSpec EXCEPT !.Type = "object"]])
      [] t.kind = "slice" -> [panic |-> FALSE, s |-> [ZeroSpec EXCEPT !.Type = "array"]]
      [] t.kind = "string" -> [panic |-> FALSE, s |-> [ZeroSpec EXCEPT !.Type = "string"]]
      [] t.kind = "int" -> [panic |-> FALSE, s |-> [ZeroSpec EXCEPT !.Type = "integer"]]
      [] t.kind = "float32" -> [panic |-> FALSE, s |-> [ZeroSpec EXCEPT !.Type = "number"]]
      [] t.kind = "bool" -> [panic |-> FALSE, s |-> [ZeroSpec EXCEPT !.Type = "boolean"]]
      [] OTHER -> [panic |-> TRUE, s |-> ZeroSpec]

readSpecFloatAsInteger(t) ==
    CASE t.kind = "struct" ->
           readFields(t.fields, [panic |-> FALSE, s |-> [ZeroSpec EXCEPT !.Type = "object"]])
      [] t.kind = "slice" ->
           LET itemSpec == readSpec(t.elem[1])
           IN IF itemSpec.panic
              THEN [panic |-> TRUE, s |-> ZeroSpec]
              ELSE [panic |-> FALSE, s |-> [ZeroSpec EXCEPT !.Type = "array", !.Items = <<itemSpec.s>>]]
      [] t.kind = "string" -> [panic |-> FALSE, s |-> [ZeroSpec EXCEPT !.Type = "string"]]
      [] t.kind \in {"int", "float32"} -> [panic |-> FALSE, s |-> [ZeroSpec EXCEPT !.Type = "integer"]]
      [] t.kind = "bool" -> [panic |-> FALSE, s |-> [ZeroSpec EXCEPT !.Type = "boolean"]]
      [] OTHER -> [panic |-> TRUE, s |-> ZeroSpec]

readSpec(t) ==
    CASE t.kind = "struct" ->
           readFields(t.fields, [panic |-> FALSE, s |-> [ZeroSpec EXCEPT !.Type = "object"]])
      [] t.kind = "slice" ->
           LET itemSpec == readSpec(t.elem[1])
           IN IF itemSpec.panic
              THEN [panic |-> TRUE, s |-> ZeroSpec]
              ELSE [panic |-> FALSE, s |-> [ZeroSpec EXCEPT !.Type = "array", !.Items = <<itemSpec.s>>]]
      [] t.kind = "string" -> [panic |-> FALSE, s |-> [ZeroSpec EXCEPT !.Type = "string"]]
      [] t.kind = "int" -> [panic |-> FALSE, s |-> [ZeroSpec EXCEPT !.Type = "integer"]]
      [] t.kind = "float32" -> [panic |-> FALSE, s |-> [ZeroSpec EXCEPT !.Type = "number"]]
      [] t.kind = "bool" -> [panic |-> FALSE, s |-> [ZeroSpec EXCEPT !.Type = "boolean"]]
      [] OTHER -> [panic |-> TRUE, s |-> ZeroSpec]

\* json.MarshalIndent(params, "", "  "): the members of the JSON object; the
\* fieldSpec members tagged omitempty are left out when empty
RECURSIVE SchemaJSON(_)
SchemaJSON(s) ==
    LET keys == {"type"}
                \cup (IF DOMAIN s.Properties # {} THEN {"properties"} ELSE {})
                \cup (IF s.Items # <<>> THEN {"items"} ELSE {})
                \cup (IF s.Description # <<>> THEN {"description"} ELSE {})
                \cup (IF s.Required # <<>> THEN {"required"} ELSE {})
                \cup (IF s.Enum # <<>> THEN {"enum"} ELSE {})
    IN [k \in keys |->
          CASE k = "type" -> s.Type
            [] k = "properties" -> [n \in DOMAIN s.Properties |-> SchemaJSON(s.Properties[n])]
            [] k = "items" -> SchemaJSON(s.Items[1])
            [] k = "description" -> s.Description
            [] k = "required" -> s.Required
            [] k = "enum" -> s.Enum]

\* the JSON texts given to a Handler, and the kind of JSON value each holds
SchemaInputs == {<<"1">>, <<"{}">>, <<"[]">>, <<"x">>}

JsonKind(input) ==
    CASE input = <<"1">> -> "number"
      [] input = <<"{}">> -> "object"
      [] input = <<"[]">> -> "array"
      [] OTHER -> "invalid"

\* json.Unmarshal([]byte(input), v) for a v of type t
UnmarshalAs(t, input) ==
    LET want == CASE t.kind \in {"int", "int64", "float32", "float64"} -> "number"
                  [] t.kind \in {"struct", "map"} -> "object"
                  [] t.kind = "slice" -> "array"
                  [] t.kind = "string" -> "string"
                  [] OTHER -> "boolean"
    IN IF JsonKind(input) = "invalid"
       THEN [err |-> NewError(<<"invalid character looking for beginning of value">>)]
       ELSE IF JsonKind(input) # want
            THEN [err |-> NewError(<<"json: cannot unmarshal ", JsonKind(input)>>)]
            ELSE [err |-> Nil]

\* the Handler closure for an argument type t: decode, invoke, encode
TypedHandler(t, f, input) ==
    LET d == UnmarshalAs(t, input)
    IN IF d.err # Nil
       THEN [out |-> <<>>, err |-> d.err, fcalls |-> 0, panic |-> FALSE]
       ELSE LET r == CallF(f, 0)
            IN IF r.err # Nil
               THEN [out |-> <<>>, err |-> r.err, fcalls |-> 1, panic |-> FALSE]
               ELSE [out |-> MarshalIndent(r.val).b, err |-> Nil, fcalls |-> 1, panic |-> FALSE]

\* every variable of a Chat and of the default client
chatVars == <<Dialogue, defaultClient, onceDone, apikey, remote, pc, mode, dlen, calls, next,
              ret, nops, pre, sent, nRemote, rounds, outcome, dispatched, op>>

\* a function func(T) (R, error) is about to be registered, for some T
InitSchema ==
    /\ ChatInit
    /\ remote = "any"
    /\ apikey = <<>>
    /\ ProcIdle
    /\ argType \in Types(MaxDepth)
    /\ reg = "none"
    /\ tool = <<>>
    /\ derived = 0
    /\ hlast = <<>>

\* MakeTool(f, name, desc) for a well-formed f: readSpec panics or the Tool
\* is returned
MakeTool ==
    /\ reg = "none"
    /\ derived' = derived + 1
    /\ \E f \in {"zero", "fail", "nan"} :
          LET params == readSpec(argType)
          IN IF params.panic
             THEN /\ reg' = "panicked"
                  /\ tool' = tool
             ELSE /\ reg' = "tool"
                  /\ tool' = [Name |-> "name", Description |-> <<"desc">>,
                              Parameters |-> SchemaJSON(params.s), F |-> f]
    /\ UNCHANGED <<argType, hlast, chatVars, procVars>>

\* tool.Handler(input)
CallHandler ==
    /\ reg = "tool"
    /\ \E input \in SchemaInputs : hlast' = TypedHandler(argType, tool.F, input)
    /\ UNCHANGED <<argType, reg, tool, derived, chatVars, procVars>>

NextSchema ==
    \/ MakeTool
    \/ CallHandler

SpecSchema == InitSchema /\ [][NextSchema]_vars

(***************************************************************************)
(* Concurrent use of the default client: goroutines calling               *)
(* DefaultClient(), each step of sync.Once.Do an action of its own, and   *)
(* SetDefaultClient at any moment.                                        *)
(***************************************************************************)
\* DefaultClient calls one goroutine makes, one after the other
MaxCalls == 2

\* SetDefaultClient calls in one run
MaxSets == 1

\* the goroutines
Procs == {1, 2}

\* the clients handed to SetDefaultClient
SetClients == {"c1"}

\* Once.doSlow, under the mutex: f is skipped when done was stored meanwhile
MustRunAlways(done) == TRUE

MustRun(done) == ~done

\* the chat and MakeTool at rest, every goroutine outside DefaultClient
InitClient ==
    /\ ChatInit
    /\ remote = "any"
    /\ SchemaIdle
    /\ cpc = [p \in Procs |-> "idle"]
    /\ cerr = [p \in Procs |-> Nil]
    /\ chist = [p \in Procs |-> [seen |-> 0, slow |-> FALSE]]
    /\ cgot = [p \in Procs |-> <<>>]
    /\ onceOwner = 0
    /\ constructed = 0
    /\ nset = 0

\* what the steps of DefaultClient leave alone
restVars == <<Dialogue, apikey, remote, pc, mode, dlen, calls, next, ret, nops, pre, sent,
              nRemote, rounds, outcome, dispatched, op, schemaVars>>

\* SetDefaultClient(c): line 18
SetDefaultClient(c) ==
    /\ nset < MaxSets
    /\ defaultClient' = c
    /\ nset' = nset + 1
    /\ UNCHANGED <<onceDone, cpc, cerr, chist, cgot, onceOwner, constructed, restVars>>

\* a goroutine enters DefaultClient(): the named result err is nil
Begin(p) ==
    /\ cpc[p] = "idle"
    /\ Len(cgot[p]) < MaxCalls
    /\ cpc' = [cpc EXCEPT ![p] = "fast"]
    /\ cerr' = [cerr EXCEPT ![p] = Nil]
    /\ chist' = [chist EXCEPT ![p] = [seen |-> nset, slow |-> FALSE]]
    /\ UNCHANGED <<defaultClient, onceDone, cgot, onceOwner, constructed, nset, restVars>>

\* Once.Do: the load of done outside the mutex
OnceFast(p) ==
    /\ cpc[p] = "fast"
    /\ cpc' = [cpc EXCEPT ![p] = IF onceDone THEN "ret" ELSE "lock"]
    /\ UNCHANGED <<defaultClient, onceDone, cerr, chist, cgot, onceOwner, constructed,
                   nset, restVars>>

\* Once.doSlow: o.m.Lock()
OnceLock(p) ==
    /\ cpc[p] = "lock"
    /\ onceOwner = 0
    /\ onceOwner' = p
    /\ cpc' = [cpc EXCEPT ![p] = "slow"]
    /\ chist' = [chist EXCEPT ![p].slow = TRUE]
    /\ UNCHANGED <<defaultClient, onceDone, cerr, cgot, constructed, nset, restVars>>

\* Once.doSlow under the mutex: the second load of done, then the function
\* literal of lines 24-31
OnceRun(p) ==
    /\ cpc[p] = "slow"
    /\ IF MustRun(onceDone)
       THEN /\ cpc' = [cpc EXCEPT ![p] = "store"]
            /\ IF apikey = <<>>
               THEN /\ cerr' = [cerr EXCEPT ![p] =
                            NewError(<<"OPENAI_API_KEY environment variable not set">>)]
                    /\ UNCHANGED <<defaultClient, constructed>>
               ELSE /\ defaultClient' = "env"
                    /\ constructed' = constructed + 1
                    /\ cerr' = cerr
       ELSE /\ cpc' = [cpc EXCEPT ![p] = "unlock"]
            /\ UNCHANGED <<defaultClient, constructed, cerr>>
    /\ UNCHANGED <<onceDone, chist, cgot, onceOwner, nset, restVars>>

\* Once.doSlow: the deferred o.done.Store(1)
OnceStore(p) ==
    /\ cpc[p] = "store"
    /\ onceDone' = TRUE
    /\ cpc' = [cpc EXCEPT ![p] = "unlock"]
    /\ UNCHANGED <<defaultClient, cerr, chist, cgot, onceOwner, constructed, nset, restVars>>

\* Once.doSlow: the deferred o.m.Unlock()
OnceUnlock(p) ==
    /\ cpc[p] = "unlock"
    /\ onceOwner' = 0
    /\ cpc' = [cpc EXCEPT ![p] = "ret"]
    /\ UNCHANGED <<defaultClient, onceDone, cerr, chist, cgot, constructed, nset, restVars>>

\* line 32: return defaultClient, err
ClientReturn(p) ==
    /\ cpc[p] = "ret"
    /\ cgot' = [cgot EXCEPT ![p] = Append(@, [client |-> defaultClient, err |-> cerr[p],
                                              seen |-> chist[p].seen, sets |-> nset,
                                              slow |-> chist[p].slow])]
    /\ cpc' = [cpc EXCEPT ![p] = "idle"]
    /\ UNCHANGED <<defaultClient, onceDone, cerr, chist, onceOwner, constructed, nset,
                   restVars>>

NextClient ==
    \/ \E c \in SetClients : SetDefaultClient(c)
    \/ \E p \in Procs :
          \/ Begin(p)
          \/ OnceFast(p)
          \/ OnceLock(p)
          \/ OnceRun(p)
          \/ OnceStore(p)
          \/ OnceUnlock(p)
          \/ ClientReturn(p)

SpecClient == InitClient /\ [][NextClient]_vars

(***************************************************************************)
(* Auxiliary definitions for the properties.                               *)
(***************************************************************************)
Failed == pc = "returned" /\ ret.err # Nil

Succeeded == pc = "returned" /\ ret.err = Nil

IsToolMessageFor(m, call) ==
    m.Role = "tool" /\ m.ToolCallID = call.ID /\ m.ToolCalls = <<>>

\* number of messages the rounds rs contribute: 1 + k for each
RECURSIVE RoundsLen(_)
RoundsLen(rs) == IF rs = <<>> THEN 0 ELSE 1 + Len(Head(rs)) + RoundsLen(Tail(rs))

\* d is, round by round, the assistant message carrying the calls followed
\* by one tool message per call, in the order of the calls
RECURSIVE MatchRounds(_, _)
MatchRounds(d, rs) ==
    IF rs = <<>>
    THEN d = <<>>
    ELSE LET cs == Head(rs)
             k == Len(cs)
         IN /\ Len(d) >= 1 + k
            /\ d[1] = CallsMessage(cs)
            /\ \A i \in 1 .. k : IsToolMessageFor(d[1 + i], cs[i])
            /\ MatchRounds(SubSeq(d, k + 2, Len(d)), Tail(rs))

ToolNames == { Tools[i].Name : i \in 1 .. Len(Tools) }

\* C1: after Exchange returns an error (empty content, no client, failed
\* remote call, or any failing response, after any number of tool rounds)
\* the Dialogue is exactly the Dialogue from before the call.
C1_ExchangeAtomicOnFailure ==
    (mode = "Exchange" /\ Failed) => Dialogue = pre

\* an Exchange that failed after a tool round had appended messages
C1_Witness ==
    /\ mode = "Exchange" /\ Failed
    /\ Len(pre) >= 1
    /\ Len(dispatched) >= 1

\* every assistant message of d that carries k calls is followed by exactly k
\* tool messages tagged, in order, with the ids of its calls
CompleteGroups(d) ==
    \A a \in 1 .. Len(d) :
        LET k == Len(d[a].ToolCalls)
        IN k >= 1 =>
            /\ a + k <= Len(d)
            /\ \A i \in 1 .. k : IsToolMessageFor(d[a + i], d[a].ToolCalls[i])
            /\ (a + k + 1 <= Len(d) => d[a + k + 1].Role # "tool")

\* every tool message of d follows its requesting assistant message with only
\* tool messages of the same request in between
ToolResultsFollowRequest(d) ==
    \A j \in 1 .. Len(d) :
        d[j].Role = "tool" =>
            \E a \in 1 .. (j - 1) :
                /\ d[a].Role = "assistant"
                /\ Len(d[a].ToolCalls) >= j - a
                /\ \A m \in (a + 1) .. j : IsToolMessageFor(d[m], d[a].ToolCalls[m - a])

\* C2: a tool-calls response with k >= 1 calls makes Talk append the assistant
\* message and then exactly k tool messages, the i-th tagged with the i-th
\* call's id, before the next remote request; so every tool message follows
\* its request with only tool messages of that request in between.
C2_ToolResultsFollowRequest ==
    /\ ToolResultsFollowRequest(Dialogue)
    /\ pc = "dispatch" =>
          LET a == Len(Dialogue) - (next - 1)
          IN /\ a >= 1
             /\ Dialogue[a] = CallsMessage(calls)
             /\ \A i \in 1 .. (next - 1) : IsToolMessageFor(Dialogue[a + i], calls[i])
    /\ pc \in {"sending", "returned"} => CompleteGroups(Dialogue)
    /\ CompleteGroups(sent)
    /\ (pc = "sending" /\ rounds # <<>>) =>
          LET cs == rounds[Len(rounds)]
              a == Len(Dialogue) - Len(cs)
          IN /\ a >= 1
             /\ Dialogue[a] = CallsMessage(cs)
             /\ \A i \in 1 .. Len(cs) : IsToolMessageFor(Dialogue[a + i], cs[i])

\* a request was issued with a Dialogue that holds a two-call round
C2_Witness ==
    /\ nRemote >= 2
    /\ \E a \in 1 .. Len(sent) : Len(sent[a].ToolCalls) = 2

\* C3: a successful Exchange with non-empty content leaves the old Dialogue,
\* the user message, each round's assistant message and tool messages, and
\* the final response; the length grows by 2 + sum(1 + k_i); the returned
\* string is the content of the last message.
C3_SuccessfulExchangeTranscript ==
    (mode = "Exchange" /\ Succeeded) =>
        LET n == Len(pre)
            L == Len(Dialogue)
        IN /\ L = n + 2 + RoundsLen(rounds)
           /\ SubSeq(Dialogue, 1, n) = pre
           /\ Dialogue[n + 1] \in { Message("user", t) : t \in Texts }
           /\ MatchRounds(SubSeq(Dialogue, n + 2, L - 1), rounds)
           /\ Dialogue[L].Role = "assistant"
           /\ Dialogue[L].ToolCalls = <<>>
           /\ ret.response = Dialogue[L].Content

\* an Exchange that succeeded on stop or length after two tool rounds
C3_Witness ==
    /\ mode = "Exchange" /\ Succeeded
    /\ outcome \in {"stop", "length"}
    /\ Len(rounds) = 2
    /\ Len(pre) >= 1

\* the tool message Talk is expected to append for a call
ToolReply(content, call) ==
    [Role |-> "tool", Content |-> content, ToolCalls |-> <<>>, ToolCallID |-> call.ID]

\* the range loop goes on to the next call, or to the next remote request
\* after the last call, and Talk has not returned
LoopContinues ==
    /\ next' = next + 1
    /\ pc' = IF next = Len(calls) THEN "sending" ELSE "dispatch"
    /\ ret' = ret
    /\ Len(dispatched') = Len(dispatched) + 1

IsUnregistered(call) == call.Type = "function" /\ call.Function.Name \notin ToolNames

\* C4: for a function-type call naming no registered Tool, Talk invokes no
\* handler, appends a tool message with that call's id whose content is an
\* error string naming the missing tool, and the loop continues.
C4_UnregisteredToolReported ==
    [][ (pc = "dispatch" /\ IsUnregistered(calls[next])) =>
          /\ Dialogue' = Append(Dialogue,
                 ToolReply(<<"error: no tool found with name ", calls[next].Function.Name>>,
                           calls[next]))
          /\ dispatched'[Len(dispatched')].tool = 0
          /\ dispatched'[Len(dispatched')].h.fcalls = 0
          /\ LoopContinues ]_vars

\* a call to an unregistered tool was answered and the next request was issued
C4_Witness ==
    /\ Len(dispatched) >= 1
    /\ IsUnregistered(dispatched[1].call)
    /\ Len(rounds) = 1
    /\ nRemote = 2

\* what the Handler of the tool found for a call does, step by step
DecodeOf(call) == Unmarshal(call.Function.Arguments)

ResultOf(call) == CallF(Tools[FindTool(call.Function.Name)].F, DecodeOf(call).v)

IsRegistered(call) == call.Type = "function" /\ call.Function.Name \in ToolNames

DecodeFails(call) == IsRegistered(call) /\ DecodeOf(call).err # Nil

EncodeFails(call) ==
    /\ IsRegistered(call)
    /\ DecodeOf(call).err = Nil
    /\ ResultOf(call).err = Nil
    /\ MarshalIndent(ResultOf(call).val).err # Nil

\* C5: when a call's argument text does not decode, or the function's result
\* cannot be serialized, Talk neither aborts nor panics: it appends a tool
\* message whose content is the text of that error and goes on.
C5_DecodeEncodeErrorsReported ==
    [][ /\ (pc = "dispatch" /\ DecodeFails(calls[next])) =>
              /\ Dialogue' = Append(Dialogue, ToolReply(DecodeOf(calls[next]).err.text, calls[next]))
              /\ ~dispatched'[Len(dispatched')].h.panic
              /\ LoopContinues
        /\ (pc = "dispatch" /\ EncodeFails(calls[next])) =>
              /\ Dialogue' = Append(Dialogue,
                     ToolReply(MarshalIndent(ResultOf(calls[next]).val).err.text, calls[next]))
              /\ ~dispatched'[Len(dispatched')].h.panic
              /\ LoopContinues ]_vars

RecognizedFinish == {"stop", "length", "tool_calls", "content_filter", "null", "function_call"}

\* the Dialogue holds nothing of the last response
NothingAppended == Dialogue = IF mode = "Exchange" THEN pre ELSE sent

\* C6: a response whose first choice carries an unrecognized finish state
\* makes Talk fail with ErrUnexpectedResponse, appending nothing.
C6_UnrecognizedFinishIsUnexpected ==
    (pc = "returned" /\ outcome \notin RecognizedFinish \cup {"", "error", "no_choices"}) =>
        /\ ret.err.is = "ErrUnexpectedResponse"
        /\ NothingAppended

\* C7: content-filter gives ErrContentFilter, null gives ErrNotFinished, zero
\* choices and the deprecated function-call form give an error wrapping
\* ErrUnexpectedResponse; the three signals differ pairwise; nothing is
\* appended for that response and no further remote call is issued.
C7_TerminalFailureSignals ==
    /\ Cardinality({ErrContentFilter.is, ErrNotFinished.is, ErrUnexpectedResponse.is, "none", "nil"}) = 5
    /\ (pc = "returned" /\ outcome \in {"content_filter", "null", "no_choices", "function_call"}) =>
          /\ outcome = "content_filter" => ret.err = ErrContentFilter
          /\ outcome = "null" => ret.err = ErrNotFinished
          /\ outcome \in {"no_choices", "function_call"} =>
                (ret.err.is = "ErrUnexpectedResponse" /\ ret.err # ErrUnexpectedResponse)
          /\ ret.response = <<>>
          /\ NothingAppended
          /\ nRemote = Len(rounds) + 1

\* Talk called directly failed on a null finish after a tool round
C7_Witness ==
    /\ pc = "returned" /\ mode = "Talk"
    /\ outcome = "null"
    /\ Len(rounds) >= 1

\* C8: for a call whose declared type is not the function type, Talk invokes
\* no handler (even if a registered tool has that name), appends a tool
\* message with the call's id carrying the unknown-tool-call-type error text,
\* and the loop continues.
C8_UnknownCallTypeReported ==
    [][ (pc = "dispatch" /\ calls[next].Type # "function") =>
          /\ Dialogue' = Append(Dialogue,
                 ToolReply(<<"error: unknown tool call type ", calls[next].Type>>, calls[next]))
          /\ dispatched'[Len(dispatched')].tool = 0
          /\ dispatched'[Len(dispatched')].h.fcalls = 0
          /\ LoopContinues ]_vars

\* a call of another type naming a registered tool was answered and the next
\* request was issued
C8_Witness ==
    /\ Len(dispatched) >= 1
    /\ dispatched[1].call.Type # "function"
    /\ dispatched[1].call.Function.Name \in ToolNames
    /\ Len(rounds) = 1
    /\ nRemote = 2

\* C9: when the wrapped function returns a non-nil error for a decoded input,
\* the Handler returns the empty output and exactly that error, and does not
\* panic.
C9_FunctionErrorPropagated ==
    \A i \in 1 .. Len(dispatched) :
        LET e == dispatched[i]
        IN (e.tool # 0 /\ DecodeOf(e.call).err = Nil
                /\ CallF(Tools[e.tool].F, DecodeOf(e.call).v).err # Nil) =>
            /\ e.h.out = <<>>
            /\ e.h.err = CallF(Tools[e.tool].F, DecodeOf(e.call).v).err
            /\ ~e.h.panic

\* a Handler was invoked whose function failed and left a value result
C9_Witness ==
    \E i \in 1 .. Len(dispatched) :
        /\ dispatched[i].tool # 0
        /\ DecodeOf(dispatched[i].call).err = Nil
        /\ CallF(Tools[dispatched[i].tool].F, DecodeOf(dispatched[i].call).v).err # Nil
        /\ MarshalIndent(CallF(Tools[dispatched[i].tool].F, DecodeOf(dispatched[i].call).v).val).b # <<>>

\* C10: decode, invoke, encode: when decoding fails the Handler returns the
\* empty output and the decode error without panicking and without invoking
\* the function; when decoding succeeds the function is invoked exactly once.
C10_DecodeBeforeInvoke ==
    \A i \in 1 .. Len(dispatched) :
        LET e == dispatched[i]
        IN e.tool # 0 =>
            /\ DecodeOf(e.call).err # Nil =>
                  /\ e.h.out = <<>>
                  /\ e.h.err = DecodeOf(e.call).err
                  /\ e.h.fcalls = 0
                  /\ ~e.h.panic
            /\ DecodeOf(e.call).err = Nil => e.h.fcalls = 1

\* one Handler call whose decode failed and one whose decode succeeded
C10_Witness ==
    /\ \E i \in 1 .. Len(dispatched) :
          dispatched[i].tool # 0 /\ DecodeOf(dispatched[i].call).err # Nil
    /\ \E i \in 1 .. Len(dispatched) :
          dispatched[i].tool # 0 /\ DecodeOf(dispatched[i].call).err = Nil

(***************************************************************************)
(* Properties of schema derivation and registration (SpecSchema).          *)
(***************************************************************************)
\* encoding/json: the field carries the omitempty option
OmitEmpty(f) == \E i \in 2 .. Len(f.Tag.json) : f.Tag.json[i] = "omitempty"

\* encoding/json: the name the field is serialized under
SerializationName(f) ==
    IF f.Tag.json # <<>> /\ f.Tag.json[1] # "" THEN f.Tag.json[1] ELSE f.Name

\* the names in the required list of a schema
RequiredOf(params) ==
    IF "required" \in DOMAIN params
    THEN { params["required"][i] : i \in 1 .. Len(params["required"]) }
    ELSE {}

\* C11: in the schema of a struct argument type, a field without omitempty
\* is in the required list under its serialization name (json rename, else
\* the field's own name) and a field with omitempty is not.
C11_RequiredUnlessOmitEmpty ==
    (reg = "tool" /\ argType.kind = "struct") =>
        \A i \in 1 .. Len(argType.fields) :
            LET f == argType.fields[i]
            IN /\ ~OmitEmpty(f) => SerializationName(f) \in RequiredOf(tool.Parameters)
               /\ OmitEmpty(f) => SerializationName(f) \notin RequiredOf(tool.Parameters)

\* t is built only from the kinds in ks
RECURSIVE BuiltFrom(_, _)
BuiltFrom(t, ks) ==
    /\ t.kind \in ks
    /\ \A i \in 1 .. Len(t.elem) : BuiltFrom(t.elem[i], ks)
    /\ \A i \in 1 .. Len(t.fields) : BuiltFrom(t.fields[i].Type, ks)

\* the JSON Schema type of a kind
SchemaType(kind) ==
    CASE kind = "struct" -> "object"
      [] kind = "slice" -> "array"
      [] kind = "string" -> "string"
      [] kind \in {"int", "int64"} -> "integer"
      [] kind \in {"float32", "float64"} -> "number"
      [] kind = "bool" -> "boolean"
      [] OTHER -> "none"

\* the key readSpec files a field's schema under
PropertyName(f) == IF f.Tag.json # <<>> THEN f.Tag.json[1] ELSE f.Name

\* the schema j is the one of type t: kinds mapped as SchemaType says, an
\* items schema for a slice, a property per field, nothing wrapped
RECURSIVE SchemaMatches(_, _)
SchemaMatches(t, j) ==
    /\ j["type"] = SchemaType(t.kind)
    /\ IF t.kind = "slice"
       THEN "items" \in DOMAIN j /\ SchemaMatches(t.elem[1], j["items"])
       ELSE "items" \notin DOMAIN j
    /\ IF t.kind = "struct" /\ t.fields # <<>>
       THEN /\ "properties" \in DOMAIN j
            /\ \A i \in 1 .. Len(t.fields) :
                  /\ PropertyName(t.fields[i]) \in DOMAIN j["properties"]
                  /\ SchemaMatches(t.fields[i].Type, j["properties"][PropertyName(t.fields[i])])
       ELSE "properties" \notin DOMAIN j

\* the kinds the claim calls supported: every signed integer kind (int64
\* stands for int8 .. int64) and every floating-point kind
ClaimedKinds == {"struct", "slice", "string", "int", "int64", "float32", "float64", "bool"}

\* the kinds readSpec has a case for
CodeKinds == {"struct", "slice", "string", "int", "float32", "bool"}

\* C12 as stated: for every argument type built from structs, sequences,
\* strings, signed integers of any width, floating-point numbers of any
\* width and booleans, readSpec returns the matching schema without the
\* unsupported-type failure.
C12_TotalOverClaimedKinds ==
    (reg # "none" /\ BuiltFrom(argType, ClaimedKinds)) =>
        (reg = "tool" /\ SchemaMatches(argType, tool.Parameters))

\* C12 as amended: for every argument type built only from structs, slices,
\* strings, int, float32 and bool, nested to any depth, readSpec returns a
\* schema without the unsupported-type failure: struct to object, slice to
\* array with a derived items schema, string to string, int to integer,
\* float32 to number, bool to boolean; a primitive is not wrapped.
C12_TotalOverSupportedKinds ==
    (reg # "none" /\ BuiltFrom(argType, CodeKinds)) =>
        (reg = "tool" /\ SchemaMatches(argType, tool.Parameters))

\* a struct holding a slice of float32 was given its schema
C12_Witness ==
    /\ reg = "tool"
    /\ argType.kind = "struct"
    /\ Len(argType.fields) = 2
    /\ argType.fields[1].Type = SliceOf(Prim("float32"))

\* a kind readSpec has no case for occurs somewhere in t
RECURSIVE HasUnsupported(_)
HasUnsupported(t) ==
    \/ t.kind \notin CodeKinds
    \/ \E i \in 1 .. Len(t.elem) : HasUnsupported(t.elem[i])
    \/ \E i \in 1 .. Len(t.fields) : HasUnsupported(t.fields[i].Type)

\* C13: an unsupported kind anywhere in the argument type makes MakeTool
\* fail at registration; so no Handler call of a Tool that MakeTool returned
\* fails with the unsupported-type error, and the schema stored on the Tool
\* is derived once and is not changed by Handler calls.
C13_UnsupportedFailsAtRegistration ==
    /\ [](/\ reg = "panicked" <=> (reg # "none" /\ HasUnsupported(argType))
          /\ reg = "tool" => ~HasUnsupported(argType)
          /\ reg # "tool" => hlast = <<>>
          /\ hlast # <<>> => (hlast.err.text # <<"unsupported type">> /\ ~hlast.panic)
          /\ derived <= 1)
    /\ [][reg = "tool" => (reg' = "tool" /\ tool' = tool /\ derived' = derived)]_vars

\* registration failed on a kind two levels down
C13_Witness ==
    /\ reg = "panicked"
    /\ argType.kind = "struct"
    /\ argType.fields[1].Type.kind = "slice"
    /\ argType.fields[1].Type.elem[1].kind \notin CodeKinds

(***************************************************************************)
(* The default client under concurrent use.                                *)
(***************************************************************************)
\* every result a goroutine got from DefaultClient so far
Results == UNION {{cgot[p][i] : i \in 1 .. Len(cgot[p])} : p \in DOMAIN cgot}

\* C14: for any interleaving of concurrent DefaultClient calls, the client
\* derived from the environment is constructed at most once, and, as long as
\* nobody called SetDefaultClient, every caller that receives a client
\* receives that one client: no two callers receive different clients, and
\* with the key set every caller receives it without an error.
C14_OnceOnlyInitialisation ==
    /\ constructed <= 1
    /\ nset = 0 =>
          /\ \A r \in Results : r.client # "nil" => r.client = "env" /\ constructed = 1
          /\ \A r1, r2 \in Results :
                (r1.client # "nil" /\ r2.client # "nil") => r1.client = r2.client
          /\ apikey # <<>> => \A r \in Results : r.client = "env" /\ r.err = Nil

\* two goroutines raced through the first use (both took the slow path), one
\* of them called again later, and all three calls returned a client
C14_Witness ==
    /\ nset = 0
    /\ constructed = 1
    /\ Len(cgot[1]) = 2
    /\ Len(cgot[2]) = 1
    /\ cgot[1][1].slow /\ cgot[2][1].slow /\ ~cgot[1][2].slow
    /\ \A r \in Results : r.client = "env"

\* C15: after SetDefaultClient(c) with a non-nil c, every DefaultClient call
\* that begins afterwards returns c, whether or not DefaultClient had been
\* called before and whether or not the key is set.  (seen and sets are the
\* numbers of SetDefaultClient calls made when the call began and returned.)
C15_SetDefaultClientWins ==
    \A r \in Results : (r.seen >= 1 /\ r.sets = r.seen) => r.client \in SetClients

(***************************************************************************)
(* The completion loop.                                                    *)
(***************************************************************************)
\* the step is a return of the top-level call
Returns == pc # "returned" /\ pc' = "returned"

\* Talk is between its start and its return
InLoop == pc \in {"sending", "dispatch"}

\* C16: the completion loop has no cap on its round trips.  Talk returns only
\* from Sending, without a client, on a remote error or on a response that
\* starts no dispatch round, never out of a round; against a remote that
\* ends up answering with a terminal response or an error Talk eventually
\* returns; against a remote that answers every request with a tool-calls
\* response of at least one call Talk never returns and every step of it
\* makes the Dialogue one message longer.
C16_LoopUncapped ==
    /\ [][Returns =>
             /\ pc \in {"idle", "sending"}
             /\ rounds' = rounds
             /\ dispatched' = dispatched
             /\ \/ nRemote' = nRemote
                \/ nRemote' = nRemote + 1 /\ outcome' = "error"
                \/ nRemote' = nRemote + 1 /\ outcome' # "error"]_vars
    /\ (remote = "any" /\ InLoop) ~> (pc = "returned")
    /\ [](remote = "looping" /\ nRemote >= 1 => pc # "returned")
    /\ [][(remote = "looping" /\ InLoop /\ nRemote' >= 1) =>
             (InLoop' /\ Len(Dialogue') = Len(Dialogue) + 1)]_vars

\* the looping remote has been followed for MaxRounds rounds and Talk is
\* about to send again
C16_Witness ==
    /\ remote = "looping"
    /\ Len(rounds) = MaxRounds
    /\ pc = "sending"
    /\ nRemote = MaxRounds
    /\ Len(Dialogue) >= 2 * MaxRounds

\* the top-level call ran Talk (Exchange with empty content does not)
RanTalk == mode = "Talk" \/ (mode = "Exchange" /\ op.args # << <<>> >>)

\* Talk found no client (lines 341-344)
ClientUnavailable ==
    ret.err = NewError(<<"OPENAI_API_KEY environment variable not set">>)

\* the Dialogue when Talk began: under Exchange the user message is in it
Base == Len(pre) + (IF mode = "Exchange" THEN 1 ELSE 0)

\* C17 as stated: in every run of Talk the number of remote calls issued is
\* the number of completed tool-dispatch rounds plus one.
C17_CallsAreRoundsPlusOne ==
    (pc = "returned" /\ RanTalk) => nRemote = Len(rounds) + 1

\* C17, amended: Talk never retries.  A remote error makes Talk return that
\* error at once and a returned Talk issues no further call; a run of Talk
\* that obtained a client issues one call more than it completed rounds (a
\* run that found no client issues none); every call is issued from Sending
\* when all tool messages of all earlier rounds are in the Dialogue, and
\* carries the whole Dialogue.
C17_NoRetry ==
    /\ [](pc = "sending" => nRemote = Len(rounds) /\ Len(dispatched) = SumLen(rounds))
    /\ [](pc = "dispatch" => nRemote = Len(rounds) /\ Len(dispatched) < SumLen(rounds))
    /\ []((pc = "returned" /\ RanTalk) =>
             IF ClientUnavailable
             THEN nRemote = 0 /\ rounds = <<>>
             ELSE nRemote = Len(rounds) + 1)
    /\ [](outcome = "error" =>
             pc = "returned" /\ ret = [response |-> <<>>,
                                       err |-> NewError(<<"remote call failed">>)])
    /\ [][pc = "returned" => nRemote' = nRemote]_vars
    /\ [][nRemote' # nRemote =>
             /\ nRemote' = nRemote + 1
             /\ pc = "sending"
             /\ sent' = Dialogue
             /\ Len(Dialogue) = Base + RoundsLen(rounds)
             /\ MatchRounds(SubSeq(Dialogue, Base + 1, Len(Dialogue)), rounds)]_vars

\* the third request of a run, made after two complete rounds, failed
C17_Witness ==
    /\ pc = "returned"
    /\ mode = "Talk"
    /\ outcome = "error"
    /\ Len(rounds) = 2
    /\ nRemote = 3
    /\ Len(sent) = Len(pre) + 4

(***************************************************************************)
(* The Dialogue is append-only.                                            *)
(***************************************************************************)
\* the step is the named set-up operation
Calls(name) == nops' = nops + 1 /\ op'.name = name

\* the step is Exchange undoing its changes after an error
IsRollback == mode = "Exchange" /\ pc # "returned" /\ pc' = "returned" /\ ret'.err # Nil

IsPrefix(d, e) == Len(d) <= Len(e) /\ SubSeq(e, 1, Len(d)) = d

\* C18: Instruction, UserSaid and AssistantSaid each append exactly one
\* message, with role system, user and assistant and the given content;
\* ExampleExchange appends exactly two, the user message then the assistant
\* message; and every step other than the rollback of Exchange, those of
\* Talk included, leaves the previous Dialogue a prefix of the new one.
C18_AppendOnly ==
    [][/\ Calls("Instruction") =>
            Dialogue' = Dialogue \o <<[Role |-> "system", Content |-> op'.args[1],
                                       ToolCalls |-> <<>>, ToolCallID |-> ""]>>
       /\ Calls("UserSaid") =>
            Dialogue' = Dialogue \o <<[Role |-> "user", Content |-> op'.args[1],
                                       ToolCalls |-> <<>>, ToolCallID |-> ""]>>
       /\ Calls("AssistantSaid") =>
            Dialogue' = Dialogue \o <<[Role |-> "assistant", Content |-> op'.args[1],
                                       ToolCalls |-> <<>>, ToolCallID |-> ""]>>
       /\ Calls("ExampleExchange") =>
            Dialogue' = Dialogue \o <<[Role |-> "user", Content |-> op'.args[1],
                                       ToolCalls |-> <<>>, ToolCallID |-> ""],
                                      [Role |-> "assistant", Content |-> op'.args[2],
                                       ToolCalls |-> <<>>, ToolCallID |-> ""]>>
       /\ ~IsRollback => IsPrefix(Dialogue, Dialogue')]_vars

\* Instruction was called on a Chat holding three messages, and a Talk that
\* followed went through a tool round and failed
C18_Witness ==
    /\ op.name = "Talk"
    /\ Failed
    /\ Len(pre) = 4
    /\ pre[4].Role = "system"
    /\ Len(Dialogue) > Len(pre)

(***************************************************************************)
(* Talk called directly.                                                   *)
(***************************************************************************)
\* C19: Talk called directly performs no rollback.  When it fails after r
\* completed tool-dispatch rounds the Dialogue is the Dialogue from before
\* the call followed by exactly the messages of those r rounds, each round
\* being its assistant tool-call message and one tool message per call; so
\* a failed Talk leaves the Dialogue unchanged exactly when r = 0.
C19_TalkKeepsCompletedRounds ==
    (mode = "Talk" /\ Failed) =>
        /\ Len(Dialogue) = Len(pre) + RoundsLen(rounds)
        /\ SubSeq(Dialogue, 1, Len(pre)) = pre
        /\ MatchRounds(SubSeq(Dialogue, Len(pre) + 1, Len(Dialogue)), rounds)
        /\ Len(dispatched) = SumLen(rounds)
        /\ (Dialogue = pre <=> rounds = <<>>)

\* a Talk on a non-empty Dialogue failed after two rounds
C19_Witness ==
    /\ mode = "Talk" /\ Failed
    /\ Len(pre) >= 1
    /\ Len(rounds) = 2
    /\ Len(Dialogue) = Len(pre) + 4

\* C20: a response whose finish reason is tool_calls but whose first choice
\* carries no call makes Talk fail with an error wrapping
\* ErrUnexpectedResponse before anything is appended for it: the Dialogue is
\* as it was when the request was sent (under Exchange, rolled back), no
\* round is opened, no handler is invoked and no further request is made.
C20_EmptyToolCallsFails ==
    /\ [][(nRemote' = nRemote + 1 /\ outcome' = "tool_calls" /\ rounds' = rounds) =>
             /\ pc' = "returned"
             /\ ret'.err = Wrap(ErrUnexpectedResponse, <<": no calls provided">>)
             /\ ret'.response = <<>>
             /\ Dialogue' = IF mode = "Exchange" THEN pre ELSE Dialogue
             /\ dispatched' = dispatched]_vars
    /\ [][pc = "returned" => UNCHANGED <<nRemote, dispatched, Dialogue>>]_vars

\* Talk, called directly, got the empty tool-calls response after a round
C20_Witness ==
    /\ pc = "returned"
    /\ mode = "Talk"
    /\ outcome = "tool_calls"
    /\ ret.err.is = "ErrUnexpectedResponse"
    /\ Len(rounds) = 1
    /\ nRemote = 2
    /\ Dialogue = sent

(***************************************************************************)
(* What DefaultClient hands out.                                           *)
(***************************************************************************)
\* C21: every call of DefaultClient returns a non-nil client or a non-nil
\* error, never a nil client together with a nil error; with the key unset
\* and no client set, the second and every later call still reports the
\* configuration error.
C21_ClientOrError ==
    \A r \in Results : r.client # "nil" \/ r.err # Nil

(***************************************************************************)
(* One handler per requested call.                                         *)
(***************************************************************************)
\* the records of the range loop for the call with this id
DispatchesOf(id) == { i \in 1 .. Len(dispatched) : dispatched[i].call.ID = id }

\* the calls requested so far in this run
Requested == UNION { { rounds[r][k] : k \in 1 .. Len(rounds[r]) } : r \in 1 .. Len(rounds) }

\* C22: tool dispatch invokes at most one handler per requested call.  For a
\* function-type call whose name is registered, the handler of the first
\* Tool in registration order with that name is invoked exactly once, with
\* the call's argument text, and its result makes the tool message, also
\* when a later Tool has the same name; for any other call no handler is
\* invoked.
C22_OneHandlerPerCall ==
    /\ \A c \in Requested : Cardinality(DispatchesOf(c.ID)) <= 1
    /\ (pc \in {"sending", "returned"}) =>
          \A c \in Requested : Cardinality(DispatchesOf(c.ID)) = 1
    /\ \A i \in 1 .. Len(dispatched) :
          LET e == dispatched[i]
              name == e.call.Function.Name
          IN IF e.call.Type = "function" /\ name \in ToolNames
             THEN /\ e.tool \in 1 .. Len(Tools)
                  /\ Tools[e.tool].Name = name
                  /\ \A j \in 1 .. (e.tool - 1) : Tools[j].Name # name
                  /\ e.h = Handler(Tools[e.tool].F, e.call.Function.Arguments)
                  /\ e.h.fcalls <= 1
                  /\ (mode = "Talk" \/ pc # "returned") =>
                        Dialogue[e.at] = ToolReply(IF e.h.err # Nil THEN e.h.err.text
                                                   ELSE e.h.out, e.call)
             ELSE e.tool = 0 /\ e.h = NoHandler

\* a call of "calc", the name two Tools share, was answered by the first of
\* them (succ: 1 + 1), not by the later one (zero)
C22_Witness ==
    \E i \in 1 .. Len(dispatched) :
        /\ dispatched[i].call.Type = "function"
        /\ dispatched[i].call.Function.Name = "calc"
        /\ dispatched[i].call.Function.Arguments = <<"1">>
        /\ dispatched[i].tool = 1
        /\ dispatched[i].h.out = <<"2">>
        /\ dispatched[i].h.fcalls = 1
        /\ pc = "sending"
        /\ Dialogue[dispatched[i].at].Content = <<"2">>

====
